---- MODULE Spec2Model ----
(***************************************************************************)
(* ContextualPreprocessor of generative_recommenders/modules/              *)
(* preprocessors.py: the jagged-sequence algebra of forward().             *)
(*                                                                         *)
(* Tensors are sequences (1-based); an offsets tensor holds the 0-based    *)
(* offsets of the code, so offsets[i] of the code is offsets[i+1] here.    *)
(* Every tensor of one call, the parameters included, has the floating    *)
(* dtype of seq_embeddings, so the .to(dtype) casts return their operand;  *)
(* a scalar is a finite number (an integer here) or NaN.  seq_timestamps   *)
(* is the flat jagged buffer that concat_2D_jagged is handed.              *)
(***************************************************************************)
EXTENDS Integers, Sequences, FiniteSets, TLC

\* ---------------------------------------------------------------- bounds
MaxB == 2          \* batch sizes 1..MaxB
MaxLen == 2        \* content sequence lengths 0..MaxLen
MaxFeatLen == 3    \* jagged length of a contextual feature 0..MaxFeatLen
MaxSeed == 1       \* parameter values the optimizer may have written
InputDim == 2      \* input_embedding_dim
OutputDim == 2     \* output_embedding_dim

\* A floating-point NaN (x * 0.0 is NaN when x is NaN).
NaN == -9999

VARIABLES
    contextual_feature_to_max_length,     \* ordered dict: <<[key, max_len], ...>>
    contextual_feature_to_min_uih_length, \* dict: key -> min_uih_length
    batched_contextual_linear_weights,    \* [slot][d][o]
    batched_contextual_linear_bias,       \* [slot][o]
    pc,                                   \* "idle" | "returned" | "raised"
    args,                                 \* arguments of the last forward call
    ret                                   \* tuple returned by the last call

vars == <<contextual_feature_to_max_length, contextual_feature_to_min_uih_length,
          batched_contextual_linear_weights, batched_contextual_linear_bias,
          pc, args, ret>>

\* ------------------------------------------------------- scalar arithmetic
Add(x, y) == IF x = NaN \/ y = NaN THEN NaN ELSE x + y
Mul(x, y) == IF x = NaN \/ y = NaN THEN NaN ELSE x * y

RECURSIVE SumSeq(_, _)
SumSeq(s, n) == IF n = 0 THEN 0 ELSE SumSeq(s, n - 1) + s[n]

MaxOf(s) == IF Len(s) = 0 THEN 0
            ELSE CHOOSE m \in {s[i] : i \in 1..Len(s)} :
                     \A i \in 1..Len(s) : s[i] <= m

RECURSIVE Dot(_, _, _, _)
\* sum over d <= n of x[d] * w[d][o], in floating point
Dot(x, w, o, n) == IF n = 0 THEN 0 ELSE Add(Dot(x, w, o, n - 1), Mul(x[n], w[n][o]))

RECURSIVE FlatCat(_, _)
\* s[1] \o s[2] \o ... \o s[n]
FlatCat(s, n) == IF n = 0 THEN <<>> ELSE FlatCat(s, n - 1) \o s[n]

\* --------------------------------------------------------- collaborators
\* torch.ops.fbgemm.asynchronous_complete_cumsum: exclusive prefix sum, B+1 entries
asynchronous_complete_cumsum(lengths) ==
    [i \in 1..(Len(lengths) + 1) |-> SumSeq(lengths, i - 1)]

\* jagged_to_padded_dense for one jagged dimension: [B][max_len] vectors
jagged_to_padded_dense(values, offsets, max_len, padding_value) ==
    [b \in 1..(Len(offsets) - 1) |->
        [j \in 1..max_len |->
            IF j <= offsets[b + 1] - offsets[b]
            THEN values[offsets[b] + j]
            ELSE [d \in 1..InputDim |-> padding_value]]]

\* concat_2D_jagged with offsets_left = None (dense left block of width max_len_left)
concat_2D_jagged(values_left, values_right, max_len_left, max_len_right, offsets_right) ==
    FlatCat([i \in 1..(Len(offsets_right) - 1) |->
                SubSeq(values_left, (i - 1) * max_len_left + 1, i * max_len_left)
                \o SubSeq(values_right, offsets_right[i] + 1, offsets_right[i + 1])],
            Len(offsets_right) - 1)

\* The content MLP (Linear, SwishLayerNorm, Linear, LayerNorm) acts on each row
\* alone; its numeric value is outside this model: an injective row-wise stand-in
\* whose outputs (negative) differ from every projected contextual value.
ContentEmbeddingRow(row) == [o \in 1..OutputDim |-> 0 - (row[1] * OutputDim + o)]

content_embedding_mlp(seq_embeddings) ==
    [r \in 1..Len(seq_embeddings) |-> ContentEmbeddingRow(seq_embeddings[r])]

\* ---------------------------------------------------------------- __init__
max_contextual_seq_len(to_max_length) ==
    SumSeq([i \in 1..Len(to_max_length) |-> to_max_length[i].max_len], Len(to_max_length))

\* contextual_feature_to_min_uih_length.get(key, 0)
MinUihLengthOf(to_min_uih_length, key) ==
    IF key \in DOMAIN to_min_uih_length THEN to_min_uih_length[key] ELSE 0

\* key + "_offsets"
OffsetsKey(key) == IF key = "a" THEN "a_offsets" ELSE "b_offsets"

\* ------------------------------------------ _get_contextual_input_embeddings
\* The dict lookups of the loop raise KeyError on an absent key.
KeyErrorRaised(seq_payloads, to_max_length) ==
    \E i \in 1..Len(to_max_length) :
        \/ to_max_length[i].key \notin DOMAIN seq_payloads
        \/ OffsetsKey(to_max_length[i].key) \notin DOMAIN seq_payloads

\* torch.flatten(x, 1, 2): [B][M][D] -> [B][M*D]
Flatten12(x) ==
    [b \in 1..Len(x) |->
        [k \in 1..(Len(x[b]) * InputDim) |->
            x[b][((k - 1) \div InputDim) + 1][((k - 1) % InputDim) + 1]]]

\* seq_payloads[key].to(dtype) is the payload itself: it has that dtype already.
PaddedFeature(seq_payloads, key, max_len) ==
    Flatten12(jagged_to_padded_dense(seq_payloads[key],
                                     seq_payloads[OffsetsKey(key)], max_len, 0))

\* Bug: the comparison written > instead of >=.
MinUihGateStrict(v, seq_lengths, min_uih_length) ==
    [b \in 1..Len(v) |->
        [k \in 1..Len(v[b]) |->
            Mul(v[b][k], IF seq_lengths[b] > min_uih_length THEN 1 ELSE 0)]]

\* v * (seq_lengths.view(-1, 1) >= min_uih_length)
MinUihGate(v, seq_lengths, min_uih_length) ==
    [b \in 1..Len(v) |->
        [k \in 1..Len(v[b]) |->
            Mul(v[b][k], IF seq_lengths[b] >= min_uih_length THEN 1 ELSE 0)]]

\* Bug: the minimum-history gate left out.
UngatedFeature(seq_lengths, seq_payloads, feat, to_min_uih_length) ==
    PaddedFeature(seq_payloads, feat.key, feat.max_len)

GatedFeature(seq_lengths, seq_payloads, feat, to_min_uih_length) ==
    LET v == PaddedFeature(seq_payloads, feat.key, feat.max_len)
        min_uih_length == MinUihLengthOf(to_min_uih_length, feat.key)
    IN  IF min_uih_length > 0 THEN MinUihGate(v, seq_lengths, min_uih_length) ELSE v

\* torch.cat(padded_values, dim=1)
CatDim1(padded_values, B) ==
    [b \in 1..B |->
        FlatCat([i \in 1..Len(padded_values) |-> padded_values[i][b]],
                Len(padded_values))]

\* Bug: the features concatenated in reverse of the dict's iteration order.
get_contextual_input_embeddings_reversed(seq_lengths, seq_payloads, to_max_length, to_min_uih_length) ==
    CatDim1([i \in 1..Len(to_max_length) |->
                GatedFeature(seq_lengths, seq_payloads,
                             to_max_length[Len(to_max_length) + 1 - i],
                             to_min_uih_length)],
            Len(seq_lengths))

get_contextual_input_embeddings(seq_lengths, seq_payloads, to_max_length, to_min_uih_length) ==
    CatDim1([i \in 1..Len(to_max_length) |->
                GatedFeature(seq_lengths, seq_payloads, to_max_length[i],
                             to_min_uih_length)],
            Len(seq_lengths))

\* Bug: x.view(C, -1, Din) in place of x.view(-1, C, Din).transpose(0, 1): the
\* row-major buffer of [B][C*Din] read as [C][B][Din].
BatchedContextualLinearNoTranspose(contextual_embeddings, weights, bias, C) ==
    LET B == Len(contextual_embeddings)
        flat(f) == contextual_embeddings[((f - 1) \div (C * InputDim)) + 1]
                                        [((f - 1) % (C * InputDim)) + 1]
        in3 == [s \in 1..C |->
                   [b \in 1..B |->
                       [d \in 1..InputDim |->
                           flat(((s - 1) * B + (b - 1)) * InputDim + d)]]]
        out3 == [s \in 1..C |->
                    [b \in 1..B |->
                        [o \in 1..OutputDim |->
                            Add(bias[s][o], Dot(in3[s][b], weights[s], o, InputDim))]]]
    IN  [b \in 1..B |-> [s \in 1..C |-> out3[s][b]]]

\* ----------------------------------------------------------------- forward
\* torch.baddbmm(bias.view(-1, 1, Dout), x.view(-1, C, Din).transpose(0, 1), weights)
\*     .transpose(0, 1): [B][C][Dout]
BatchedContextualLinear(contextual_embeddings, weights, bias, C) ==
    LET in3 == [s \in 1..C |->
                   [b \in 1..Len(contextual_embeddings) |->
                       [d \in 1..InputDim |->
                           contextual_embeddings[b][(s - 1) * InputDim + d]]]]
        out3 == [s \in 1..C |->
                    [b \in 1..Len(contextual_embeddings) |->
                        [o \in 1..OutputDim |->
                            Add(bias[s][o], Dot(in3[s][b], weights[s], o, InputDim))]]]
    IN  [b \in 1..Len(contextual_embeddings) |-> [s \in 1..C |-> out3[s][b]]]

\* x.reshape(-1, Dout): [B][C][Dout] -> [B*C][Dout]
ReshapeRows(x, C) ==
    [k \in 1..(Len(x) * C) |-> x[((k - 1) \div C) + 1][((k - 1) % C) + 1]]

\* Bug: the two blocks joined as whole buffers (torch.cat) instead of per example.
ConcatEmbeddingsGlobal(contextual_embeddings, output_seq_embeddings, C, max_seq_len, offsets) ==
    ReshapeRows(contextual_embeddings, C) \o output_seq_embeddings

ConcatEmbeddings(contextual_embeddings, output_seq_embeddings, C, max_seq_len, offsets) ==
    concat_2D_jagged(ReshapeRows(contextual_embeddings, C), output_seq_embeddings,
                     C, max_seq_len, offsets)

\* Bug: the zero block put in front of the whole timestamp buffer.
ConcatTimestampsGlobal(seq_lengths, seq_timestamps, C, max_seq_len, offsets) ==
    [k \in 1..(Len(seq_lengths) * C) |-> 0] \o seq_timestamps

ConcatTimestamps(seq_lengths, seq_timestamps, C, max_seq_len, offsets) ==
    concat_2D_jagged([k \in 1..(Len(seq_lengths) * C) |-> 0], seq_timestamps,
                     C, max_seq_len, offsets)

OutputMaxSeqLen(max_seq_len, C) == max_seq_len + C

\* Bug: empty examples left without their contextual slots.
OutputSeqLengthsSkipEmpty(seq_lengths, C) ==
    [i \in 1..Len(seq_lengths) |->
        IF seq_lengths[i] = 0 THEN 0 ELSE seq_lengths[i] + C]

OutputSeqLengths(seq_lengths, C) == [i \in 1..Len(seq_lengths) |-> seq_lengths[i] + C]

\* Bug: the exclusive cumsum (B entries, no total) in place of the complete one.
OutputSeqOffsetsExclusive(output_seq_lengths) ==
    [i \in 1..Len(output_seq_lengths) |-> SumSeq(output_seq_lengths, i - 1)]

OutputSeqOffsets(output_seq_lengths) == asynchronous_complete_cumsum(output_seq_lengths)

\* Bug: the branch taken for a zero contextual width too.
HasContextualOrZero(C) == C >= 0

\* if self._max_contextual_seq_len > 0
HasContextual(C) == C > 0

NoResult ==
    [max_seq_len |-> 0, lengths |-> <<>>, offsets |-> <<>>, timestamps |-> <<>>,
     embeddings |-> <<>>, num_targets |-> <<>>,
     payloads |-> [k \in {"extra"} |-> <<0>>]]

\* lines 172-180: the tuple as it stands before the contextual branch
ContentOnly(a) ==
    [max_seq_len |-> a.max_seq_len,
     lengths |-> a.seq_lengths,
     offsets |-> asynchronous_complete_cumsum(a.seq_lengths),
     timestamps |-> a.seq_timestamps,
     embeddings |-> content_embedding_mlp(a.seq_embeddings),
     num_targets |-> a.num_targets,
     payloads |-> a.seq_payloads]

\* lines 183-226: the contextual branch, every payload key present
WithContextual(to_max_length, to_min_uih_length, weights, bias, a) ==
    LET C == max_contextual_seq_len(to_max_length)
        out == ContentOnly(a)
        dense == get_contextual_input_embeddings(
                     a.seq_lengths, a.seq_payloads, to_max_length, to_min_uih_length)
        projected == BatchedContextualLinear(dense, weights, bias, C)
        lengths1 == OutputSeqLengths(out.lengths, C)
    IN  [max_seq_len |-> OutputMaxSeqLen(out.max_seq_len, C),
         lengths |-> lengths1,
         offsets |-> OutputSeqOffsets(lengths1),
         timestamps |-> ConcatTimestamps(out.lengths, out.timestamps, C,
                                         out.max_seq_len, out.offsets),
         embeddings |-> ConcatEmbeddings(projected, out.embeddings, C,
                                         out.max_seq_len, out.offsets),
         num_targets |-> out.num_targets,
         payloads |-> out.payloads]

\* An uncaught KeyError leaves forward without a return value.
forwardSwallowsKeyError(to_max_length, to_min_uih_length, weights, bias, a) ==
    IF ~HasContextual(max_contextual_seq_len(to_max_length))
       \/ KeyErrorRaised(a.seq_payloads, to_max_length)
    THEN [raised |-> FALSE, value |-> ContentOnly(a)]
    ELSE [raised |-> FALSE,
          value |-> WithContextual(to_max_length, to_min_uih_length, weights, bias, a)]

forward(to_max_length, to_min_uih_length, weights, bias, a) ==
    IF ~HasContextual(max_contextual_seq_len(to_max_length))
    THEN [raised |-> FALSE, value |-> ContentOnly(a)]
    ELSE IF KeyErrorRaised(a.seq_payloads, to_max_length)
    THEN [raised |-> TRUE, value |-> NoResult]
    ELSE [raised |-> FALSE,
          value |-> WithContextual(to_max_length, to_min_uih_length, weights, bias, a)]

\* ------------------------------------------------------------------ inputs
\* Feature specs a preprocessor may be constructed with.
FeatureSpecs ==
    { [to_max_length |-> <<>>, to_min_uih_length |-> <<>>],
      [to_max_length |-> <<[key |-> "a", max_len |-> 0]>>,
       to_min_uih_length |-> [k \in {"a"} |-> 1]],
      [to_max_length |-> <<[key |-> "a", max_len |-> 1]>>,
       to_min_uih_length |-> [k \in {"a"} |-> 1]],
      [to_max_length |-> <<[key |-> "a", max_len |-> 2]>>,
       to_min_uih_length |-> [k \in {"a"} |-> 0]],
      [to_max_length |-> <<[key |-> "a", max_len |-> 1], [key |-> "b", max_len |-> 1]>>,
       to_min_uih_length |-> [k \in {"b"} |-> 2]],
      [to_max_length |-> <<[key |-> "b", max_len |-> 1], [key |-> "a", max_len |-> 0]>>,
       to_min_uih_length |-> [k \in {"a", "b"} |-> 2]] }

\* Parameter values: slot s has its own matrix and bias.
WeightsOf(C, seed) ==
    [s \in 1..C |-> [d \in 1..InputDim |-> [o \in 1..OutputDim |->
        seed + s + 2 * d + o]]]

BiasOf(C, seed) == [s \in 1..C |-> [o \in 1..OutputDim |-> seed * (s + o)]]

FeatureKeys(to_max_length) == {to_max_length[i].key : i \in 1..Len(to_max_length)}

PayloadKeys(to_max_length) ==
    FeatureKeys(to_max_length) \cup {OffsetsKey(k) : k \in FeatureKeys(to_max_length)}

\* jagged length of feature j in example i, whose content length is seq_length
FeatLen(i, j, seq_length) == (2 * i + j + seq_length) % (MaxFeatLen + 1)

FeatLengths(lens, j) == [i \in 1..Len(lens) |-> FeatLen(i, j, lens[i])]

\* example that owns row r (1-based) of a jagged buffer with these offsets
ExampleOf(offsets, r) ==
    CHOOSE i \in 1..(Len(offsets) - 1) : offsets[i] < r /\ r <= offsets[i + 1]

FeatValues(lens, j, nanRow) ==
    LET off == asynchronous_complete_cumsum(FeatLengths(lens, j))
    IN  [r \in 1..off[Len(lens) + 1] |->
            [d \in 1..InputDim |->
                IF ExampleOf(off, r) = nanRow THEN NaN
                ELSE (8 * j + r) * InputDim + d]]

FeatIndex(key) == IF key = "a" THEN 1 ELSE 2

Payloads(to_max_length, lens, nanRow, missing) ==
    [k \in (PayloadKeys(to_max_length) \cup {"extra"}) \ {missing} |->
        IF k \in {"a", "b"} THEN FeatValues(lens, FeatIndex(k), nanRow)
        ELSE IF k = "a_offsets"
        THEN asynchronous_complete_cumsum(FeatLengths(lens, 1))
        ELSE IF k = "b_offsets"
        THEN asynchronous_complete_cumsum(FeatLengths(lens, 2))
        ELSE <<Len(lens)>>]

\* A call has every payload key and finite values, or NaN values in one
\* example's contextual features, or one payload key absent.
Scenarios(to_max_length, B) ==
    {[nanRow |-> n, missing |-> "none"] : n \in 0..B}
    \cup {[nanRow |-> 0, missing |-> k] : k \in PayloadKeys(to_max_length)}

Args(to_max_length, lens, msl, nanRow, missing) ==
    LET B == Len(lens)
        off == asynchronous_complete_cumsum(lens)
    IN  [max_seq_len |-> msl,
         seq_lengths |-> lens,
         seq_timestamps |->
             [r \in 1..off[B + 1] |->
                 10 * (ExampleOf(off, r) - 1) + (r - off[ExampleOf(off, r)] - 1)],
         seq_embeddings |->
             [r \in 1..off[B + 1] |-> [d \in 1..InputDim |-> (r - 1) * InputDim + d]],
         num_targets |-> [i \in 1..B |-> IF lens[i] > 0 THEN 1 ELSE 0],
         seq_payloads |-> Payloads(to_max_length, lens, nanRow, missing)]

NoArgs ==
    [max_seq_len |-> 0, seq_lengths |-> <<>>, seq_timestamps |-> <<>>,
     seq_embeddings |-> <<>>, num_targets |-> <<>>,
     seq_payloads |-> [k \in {"extra"} |-> <<0>>]]

\* ----------------------------------------------------------------- actions
Init ==
    /\ \E f \in FeatureSpecs :
          /\ contextual_feature_to_max_length = f.to_max_length
          /\ contextual_feature_to_min_uih_length = f.to_min_uih_length
    /\ \E seed \in 0..MaxSeed :
          batched_contextual_linear_weights =
              WeightsOf(max_contextual_seq_len(contextual_feature_to_max_length), seed)
    /\ batched_contextual_linear_bias =
          BiasOf(max_contextual_seq_len(contextual_feature_to_max_length), 0)
    /\ pc = "idle"
    /\ args = NoArgs
    /\ ret = NoResult

\* The external optimizer writes new parameter values between calls.
OptimizerStep ==
    /\ pc = "idle"
    /\ \E seed \in 0..MaxSeed :
          /\ batched_contextual_linear_weights' =
                 WeightsOf(max_contextual_seq_len(contextual_feature_to_max_length), seed)
          /\ batched_contextual_linear_bias' =
                 BiasOf(max_contextual_seq_len(contextual_feature_to_max_length), seed + 1)
    /\ UNCHANGED <<contextual_feature_to_max_length,
                   contextual_feature_to_min_uih_length, pc, args, ret>>

\* The content lengths of a batch: first length l0, then steps of `step`
\* modulo MaxLen + 1 (every pair of lengths for a batch of two).
SeqLengths(B, l0, step) == [i \in 1..B |-> (l0 + (i - 1) * step) % (MaxLen + 1)]

Forward ==
    /\ pc = "idle"
    /\ \E B \in 1..MaxB :
       \E l0 \in 0..MaxLen :
       \E step \in 0..MaxLen :
       \E msl \in {MaxOf(SeqLengths(B, l0, step)), MaxLen} :
       \E sc \in Scenarios(contextual_feature_to_max_length, B) :
          /\ args' = Args(contextual_feature_to_max_length, SeqLengths(B, l0, step),
                          msl, sc.nanRow, sc.missing)
          /\ LET r == forward(contextual_feature_to_max_length,
                              contextual_feature_to_min_uih_length,
                              batched_contextual_linear_weights,
                              batched_contextual_linear_bias, args')
             IN  /\ ret' = r.value
                 /\ pc' = IF r.raised THEN "raised" ELSE "returned"
    /\ UNCHANGED <<contextual_feature_to_max_length,
                   contextual_feature_to_min_uih_length,
                   batched_contextual_linear_weights,
                   batched_contextual_linear_bias>>

\* The caller takes the tuple (or the exception); the per-call tensors are gone.
Release ==
    /\ pc \in {"returned", "raised"}
    /\ pc' = "idle"
    /\ args' = NoArgs
    /\ ret' = NoResult
    /\ UNCHANGED <<contextual_feature_to_max_length,
                   contextual_feature_to_min_uih_length,
                   batched_contextual_linear_weights,
                   batched_contextual_linear_bias>>

Next == OptimizerStep \/ Forward \/ Release

Spec == Init /\ [][Next]_vars

\* ------------------------------------------------------------ the claims
CtxWidth == max_contextual_seq_len(contextual_feature_to_max_length)

BatchSize == Len(args.seq_lengths)

\* 0-based start of example i in the input buffers
InOff(i) == SumSeq(args.seq_lengths, i - 1)

\* forward returned through the contextual branch
Contextual == pc = "returned" /\ CtxWidth > 0

DenseNow ==
    get_contextual_input_embeddings(args.seq_lengths, args.seq_payloads,
                                    contextual_feature_to_max_length,
                                    contextual_feature_to_min_uih_length)

ProjectedNow ==
    BatchedContextualLinear(DenseNow, batched_contextual_linear_weights,
                            batched_contextual_linear_bias, CtxWidth)

ContentRowsOf(i) ==
    [p \in 1..args.seq_lengths[i] |->
        ContentEmbeddingRow(args.seq_embeddings[InOff(i) + p])]

ExampleSlice(buffer, i) == SubSeq(buffer, ret.offsets[i] + 1, ret.offsets[i + 1])

\* C1: with C > 0, example i's slice of the returned embeddings is its C projected
\* contextual rows (slot order) followed by the content-MLP rows of its own input
\* rows in order; wherever the two layouts differ, the output is not the global
\* contextual block followed by the global content block.
C1_PerExampleLayout ==
    Contextual =>
        LET projected == ProjectedNow IN
        /\ Len(ret.offsets) = BatchSize + 1
        /\ \A i \in 1..BatchSize :
              /\ ExampleSlice(ret.embeddings, i)
                   = [s \in 1..CtxWidth |-> projected[i][s]] \o ContentRowsOf(i)
              /\ Len(ExampleSlice(ret.embeddings, i)) = args.seq_lengths[i] + CtxWidth
        /\ (\E i \in 1..(BatchSize - 1) : args.seq_lengths[i] > 0)
              => ret.embeddings
                   # ReshapeRows(projected, CtxWidth)
                       \o content_embedding_mlp(args.seq_embeddings)

C1_Witness ==
    /\ Contextual
    /\ CtxWidth = 2
    /\ args.seq_lengths = <<2, 1>>
    /\ Len(ret.embeddings) = 7

\* C2: lengths' = seq_lengths + C for every example (empty ones included) and
\* max_seq_len' = max_seq_len + C, for every C >= 0.
C2_UniformIncrement ==
    pc = "returned" =>
        /\ Len(ret.lengths) = BatchSize
        /\ \A i \in 1..BatchSize : ret.lengths[i] = args.seq_lengths[i] + CtxWidth
        /\ ret.max_seq_len = args.max_seq_len + CtxWidth

C2_Witness ==
    /\ Contextual
    /\ \E i, j \in 1..BatchSize : args.seq_lengths[i] = 0 /\ args.seq_lengths[j] > 0
    /\ \E i \in 1..BatchSize : ret.lengths[i] = CtxWidth

\* C3: in both branches the returned offsets (B+1) and lengths (B) satisfy
\* offsets'[0] = 0, offsets'[i+1] - offsets'[i] = lengths'[i], offsets' is
\* non-decreasing, and offsets'[B] = sum(lengths') = rows of the embeddings.
C3_OffsetInvariant ==
    pc = "returned" =>
        /\ Len(ret.offsets) = BatchSize + 1
        /\ Len(ret.lengths) = BatchSize
        /\ ret.offsets[1] = 0
        /\ \A i \in 1..BatchSize :
              /\ ret.offsets[i + 1] - ret.offsets[i] = ret.lengths[i]
              /\ ret.offsets[i] <= ret.offsets[i + 1]
        /\ ret.offsets[BatchSize + 1] = SumSeq(ret.lengths, BatchSize)
        /\ ret.offsets[BatchSize + 1] = Len(ret.embeddings)

C3_Witness ==
    /\ Contextual
    /\ args.seq_lengths = <<0, 2>>
    /\ ret.offsets = <<0, CtxWidth, 2 * CtxWidth + 2>>

C5_ZeroWidthIdentity ==
    (pc # "idle" /\ CtxWidth = 0) =>
        /\ pc = "returned"
        /\ ret.max_seq_len = args.max_seq_len
        /\ ret.lengths = args.seq_lengths
        /\ ret.timestamps = args.seq_timestamps
        /\ ret.num_targets = args.num_targets
        /\ ret.payloads = args.seq_payloads
        /\ ret.offsets = [i \in 1..(BatchSize + 1) |-> InOff(i)]
        /\ ret.embeddings
             = [r \in 1..Len(args.seq_embeddings) |->
                   ContentEmbeddingRow(args.seq_embeddings[r])]

C5_Witness ==
    /\ pc = "returned"
    /\ CtxWidth = 0
    /\ Len(contextual_feature_to_max_length) = 1
    /\ "a" \notin DOMAIN args.seq_payloads
    /\ args.seq_lengths = <<1, 2>>
    /\ Len(ret.embeddings) = 3

\* --------------------------------------- the dense contextual matrix
NumFeatures == Len(contextual_feature_to_max_length)

FeatAt(j) == contextual_feature_to_max_length[j]

\* slots of the features before feature j
SlotBase(j) ==
    SumSeq([i \in 1..NumFeatures |-> FeatAt(i).max_len], j - 1)

RawOffsets(j) == args.seq_payloads[OffsetsKey(FeatAt(j).key)]

RawLen(j, i) == RawOffsets(j)[i + 1] - RawOffsets(j)[i]

\* vector m of example i of feature j after padding and truncation to max_len
ExpectedPadded(j, i, m) ==
    IF m <= RawLen(j, i)
    THEN args.seq_payloads[FeatAt(j).key][RawOffsets(j)[i] + m]
    ELSE [d \in 1..InputDim |-> 0]

DenseSlot(dense, i, s) == [d \in 1..InputDim |-> dense[i][(s - 1) * InputDim + d]]

MinUihOf(j) ==
    IF FeatAt(j).key \in DOMAIN contextual_feature_to_min_uih_length
    THEN contextual_feature_to_min_uih_length[FeatAt(j).key]
    ELSE 0

\* example i is below feature j's minimum history length
Suppressed(j, i) == MinUihOf(j) > 0 /\ args.seq_lengths[i] < MinUihOf(j)

HasNaN(x) == \E d \in 1..Len(x) : x[d] = NaN

\* Every (feature, example, slot of the feature) of the last call.
Cells ==
    {c \in (1..NumFeatures) \X (1..BatchSize) \X (1..CtxWidth) :
        c[3] <= FeatAt(c[1]).max_len}

\* C6 as stated: a suppressed feature's columns are zero whatever the raw values;
\* otherwise the padded values stand, other features' columns included.
C6_GateZeroes_Original ==
    LET dense == DenseNow IN
        Contextual =>
            \A c \in Cells :
                DenseSlot(dense, c[2], SlotBase(c[1]) + c[3])
                  = IF Suppressed(c[1], c[2])
                    THEN [d \in 1..InputDim |-> 0]
                    ELSE ExpectedPadded(c[1], c[2], c[3])

\* C6 (amended): a suppressed feature's columns are the padded values times 0.0:
\* zero for every finite raw value, NaN for a NaN one; otherwise the padded values
\* stand, other features' columns included.
C6_GateMultipliesByZero ==
    LET dense == DenseNow IN
        Contextual =>
            \A c \in Cells :
                DenseSlot(dense, c[2], SlotBase(c[1]) + c[3])
                  = IF Suppressed(c[1], c[2])
                    THEN [d \in 1..InputDim |->
                             IF ExpectedPadded(c[1], c[2], c[3])[d] = NaN THEN NaN ELSE 0]
                    ELSE ExpectedPadded(c[1], c[2], c[3])

C6_Witness ==
    LET dense == DenseNow IN
        /\ Contextual
        /\ NumFeatures = 2
        /\ \E c \in Cells :
              /\ Suppressed(c[1], c[2])
              /\ ~HasNaN(ExpectedPadded(c[1], c[2], c[3]))
              /\ ExpectedPadded(c[1], c[2], c[3])[1] > 0
              /\ DenseSlot(dense, c[2], SlotBase(c[1]) + c[3]) = [d \in 1..InputDim |-> 0]
        /\ \E c \in Cells :
              /\ ~Suppressed(c[1], c[2])
              /\ DenseSlot(dense, c[2], SlotBase(c[1]) + c[3])[1] > 0

\* C7 as stated: every feature's part of every row holds the first min(n_i, M)
\* raw vectors then zeros, parts in the feature spec's order, rows C * input_dim wide.
C7_PaddedPrefix_Original ==
    LET dense == DenseNow IN
        Contextual =>
            /\ \A i \in 1..BatchSize : Len(dense[i]) = CtxWidth * InputDim
            /\ \A c \in Cells :
                  DenseSlot(dense, c[2], SlotBase(c[1]) + c[3])
                    = ExpectedPadded(c[1], c[2], c[3])

\* C7 (amended): the same, for every example the feature's minimum-history gate
\* does not suppress.
C7_PaddedPrefix ==
    LET dense == DenseNow IN
        Contextual =>
            /\ \A i \in 1..BatchSize : Len(dense[i]) = CtxWidth * InputDim
            /\ \A c \in Cells :
                  ~Suppressed(c[1], c[2])
                    => DenseSlot(dense, c[2], SlotBase(c[1]) + c[3])
                         = ExpectedPadded(c[1], c[2], c[3])

C7_Witness ==
    LET dense == DenseNow IN
        /\ Contextual
        /\ \E j \in 1..NumFeatures :
              /\ FeatAt(j).max_len = 2
              /\ \E i \in 1..BatchSize :
                    RawLen(j, i) > 2 /\ ~HasNaN(DenseSlot(dense, i, SlotBase(j) + 2))
              /\ \E i \in 1..BatchSize :
                    /\ RawLen(j, i) = 1
                    /\ DenseSlot(dense, i, SlotBase(j) + 1)[1] > 0
                    /\ DenseSlot(dense, i, SlotBase(j) + 2) = [d \in 1..InputDim |-> 0]

    \* ------------------------------------------------- the slot projection
    SlotAffine(x, s) ==
        [o \in 1..OutputDim |->
            Add(batched_contextual_linear_bias[s][o],
                Dot(x, batched_contextual_linear_weights[s], o, InputDim))]

    \* the returned embeddings row of slot s of example i
    SlotRow(i, s) == ret.embeddings[ret.offsets[i] + s]

    SlotRowIndices(s) == {ret.offsets[i] + s : i \in 1..BatchSize}

    \* the embeddings forward returns for the same call under other parameters
    EmbeddingsUnder(weights, bias) ==
        forward(contextual_feature_to_max_length, contextual_feature_to_min_uih_length,
                weights, bias, args).value.embeddings

\* C8: slot s of example b is dense[b, s*Din:(s+1)*Din] @ weight[s] + bias[s];
\* replacing weight[s] or bias[s] of one slot leaves every row of the other
\* slots and every content row as it was.
C8_SlotIndependence ==
    LET dense == DenseNow IN
        Contextual =>
            /\ \A i \in 1..BatchSize, s \in 1..CtxWidth :
                  SlotRow(i, s) = SlotAffine(DenseSlot(dense, i, s), s)
            /\ \A s \in 1..CtxWidth :
                  LET w2 == [batched_contextual_linear_weights EXCEPT
                                ![s] = WeightsOf(CtxWidth + 1, MaxSeed + 1)[s + 1]]
                      b2 == [batched_contextual_linear_bias EXCEPT
                                ![s] = BiasOf(CtxWidth + 1, MaxSeed + 2)[s + 1]]
                      ew == EmbeddingsUnder(w2, batched_contextual_linear_bias)
                      eb == EmbeddingsUnder(batched_contextual_linear_weights, b2)
                  IN  \A r \in (1..Len(ret.embeddings)) \ SlotRowIndices(s) :
                          ew[r] = ret.embeddings[r] /\ eb[r] = ret.embeddings[r]

C8_Witness ==
    /\ Contextual
    /\ CtxWidth = 2
    /\ BatchSize = 2
    /\ \A i \in 1..BatchSize, s \in 1..CtxWidth :
          ~HasNaN(SlotRow(i, s)) /\ SlotRow(i, s)[1] > 0
    /\ SlotRow(1, 1) # SlotRow(1, 2)

\* ----------------------------------------------------------- KeyError
MissingKey ==
    \E j \in 1..NumFeatures :
        \/ FeatAt(j).key \notin DOMAIN args.seq_payloads
        \/ OffsetsKey(FeatAt(j).key) \notin DOMAIN args.seq_payloads

\* C9 as stated: a feature key or offsets key absent from seq_payloads always
\* makes forward abort without a result, zero-length features included.
C9_MissingKeyAborts_Original ==
    (pc # "idle" /\ MissingKey) => (pc = "raised" /\ ret = NoResult)

\* C9 (amended): when the total contextual width is positive, an absent feature
\* key or offsets key (of any feature of the spec, zero-length ones included)
\* makes forward abort without a result; when the total width is 0 the payloads
\* are never looked up and forward returns.
C9_MissingKeyAbortsWhenWidthPositive ==
    /\ (pc # "idle" /\ MissingKey /\ CtxWidth > 0) => (pc = "raised" /\ ret = NoResult)
    /\ (pc # "idle" /\ CtxWidth = 0) => pc = "returned"

C9_Witness ==
    LET dense == DenseNow IN
        /\ pc = "raised"
        /\ NumFeatures = 2
        /\ FeatAt(2).max_len = 0
        /\ FeatAt(2).key \notin DOMAIN args.seq_payloads
        /\ FeatAt(1).key \in DOMAIN args.seq_payloads
        /\ ret = NoResult

\* --------------------------------------------- gate after the projection
\* C10 as stated: the returned rows of a suppressed feature's slots are zero
\* whatever the weights and biases (here for finite raw values alone, where the
\* dense columns are zero).
C10_SuppressedRowsZero_Original ==
    Contextual =>
        \A c \in Cells :
            (Suppressed(c[1], c[2]) /\ ~HasNaN(ExpectedPadded(c[1], c[2], c[3])))
              => SlotRow(c[2], SlotBase(c[1]) + c[3]) = [o \in 1..OutputDim |-> 0]

\* C10 (amended): the returned rows of a suppressed feature's slots equal the
\* slot's bias, whatever the weights and the finite raw values (zero only while
\* the bias is zero); a NaN raw value makes the row NaN.
C10_SuppressedRowsAreBias ==
    Contextual =>
        \A c \in Cells :
            Suppressed(c[1], c[2])
              => SlotRow(c[2], SlotBase(c[1]) + c[3])
                   = IF HasNaN(ExpectedPadded(c[1], c[2], c[3]))
                     THEN [o \in 1..OutputDim |-> NaN]
                     ELSE batched_contextual_linear_bias[SlotBase(c[1]) + c[3]]

C10_Witness ==
    /\ Contextual
    /\ \E c \in Cells :
          /\ Suppressed(c[1], c[2])
          /\ ~HasNaN(ExpectedPadded(c[1], c[2], c[3]))
          /\ ExpectedPadded(c[1], c[2], c[3])[1] > 0
          /\ batched_contextual_linear_bias[SlotBase(c[1]) + c[3]][1] > 0
          /\ SlotRow(c[2], SlotBase(c[1]) + c[3])
               = batched_contextual_linear_bias[SlotBase(c[1]) + c[3]]

====
